---- MODULE Spec2Model ----
(***************************************************************************)
(* Model of the poster generator (src/Oasis.py): the colour module         *)
(* (rgb_to_cmyk, cmyk_to_rgb, check_gamut_warning), the darken blend        *)
(* (apply_blend_darken), the text layout (draw_text_with_tracking) and the  *)
(* poster pipeline (create_poster).                                         *)
(*                                                                          *)
(* Arithmetic.  The program computes in IEEE-754 doubles and truncates with *)
(* int() / astype('uint8').  The model computes the exact rational value    *)
(* with integers and, where a double falls just below an integer that the   *)
(* exact value reaches (so that truncation loses one), takes the value the  *)
(* double arithmetic gives from a table of those inputs.                    *)
(*                                                                          *)
(* Four specifications share the module:                                    *)
(*   SpecColour  check_gamut_warning applied to an RGB input                *)
(*   SpecBlend   one channel of apply_blend_darken                          *)
(*   SpecText    draw_text_with_tracking on one line                        *)
(*   Spec        create_poster, statement by statement                      *)
(***************************************************************************)
EXTENDS Integers, Sequences, FiniteSets, TLC

VARIABLES
  \* check_gamut_warning (SpecColour)
  original_rgb, cmyk, round_trip_rgb, gamut, gamut_pc,
  \* apply_blend_darken (SpecBlend)
  blend_in, blend_out, blend_pc,
  \* draw_text_with_tracking (SpecText)
  text_in, text_out, text_pc,
  \* create_poster (Spec)
  args, pc, scale, images, poster, fonts, layouts, raised, result

colour_vars == <<original_rgb, cmyk, round_trip_rgb, gamut, gamut_pc>>
blend_vars  == <<blend_in, blend_out, blend_pc>>
text_vars   == <<text_in, text_out, text_pc>>
poster_vars == <<args, pc, scale, images, poster, fonts, layouts, raised, result>>
vars == <<colour_vars, blend_vars, text_vars, poster_vars>>

Min2(a, b) == IF a <= b THEN a ELSE b
Max2(a, b) == IF a >= b THEN a ELSE b
Max3(a, b, c) == Max2(a, Max2(b, c))

\* Python's int() on a quotient n/d with d > 0: truncation towards zero.
TruncDiv(n, d) == IF n >= 0 THEN n \div d ELSE -((-n) \div d)

(***************************************************************************)
(* Constants of the program.                                                *)
(***************************************************************************)
A3_WIDTH_MM == 297
A3_HEIGHT_MM == 420
A4_WIDTH_MM == 210
A4_HEIGHT_MM == 297
DPI == 300
BORDER_MM == 10
FONT_SCALE_MULTIPLIER == 4
GAMUT_THRESHOLD == 30
TEXTURE_FILL == 95
TEXTURE_OPACITY == 100

(***************************************************************************)
(* Colour module.                                                           *)
(***************************************************************************)

\* <<max, channels>>: for max = the largest of r, g, b and a channel value in
\* channels, the double ((c - k) / (1 - k)) * 100 of lines 76-78 is just
\* below the integer 100 * (max - channel) / max, and int() gives one less.
FloatLowChannel ==
    { <<8, {6}>>,
      <<10, {5, 6, 7, 8, 9}>>,
      <<15, {6, 12}>>,
      <<16, {12}>>,
      <<20, {5, 6, 7, 8, 9, 12, 13, 14, 15, 16, 17, 18, 19}>>,
      <<24, {6, 12}>>,
      <<25, {5, 6, 7, 12, 13, 14, 15, 16, 21, 22, 23, 24}>>,
      <<26, {13}>>,
      <<30, {6, 12, 21}>>,
      <<35, {7, 14, 21, 28}>>,
      <<40, {6, 12, 14, 22, 28, 30, 38}>>,
      <<42, {21}>>,
      <<48, {12}>>,
      <<50, {5, 6, 7, 12, 13, 14, 15, 21, 22, 23, 24, 28, 29, 30, 31, 32, 37, 38, 39, 40, 41, 43, 44, 45, 46, 47, 48, 49}>>,
      <<52, {13, 39}>>,
      <<55, {22, 44}>>,
      <<56, {14, 28}>>,
      <<58, {29}>>,
      <<60, {6, 12, 21}>>,
      <<65, {13, 39}>>,
      <<70, {7, 21, 28}>>,
      <<72, {54}>>,
      <<75, {12}>>,
      <<80, {12, 28, 44, 60, 76}>>,
      <<84, {21, 63}>>,
      <<86, {43}>>,
      <<88, {22, 44}>>,
      <<95, {76}>>,
      <<100, {5, 12, 13, 14, 21, 22, 23, 28, 29, 30, 37, 38, 39, 42, 43, 44, 45, 46, 47, 48, 53, 54, 55, 56, 57, 59, 60, 61, 62, 63, 64, 65, 70, 71, 72, 73, 74, 75, 76, 77, 78, 79, 80, 81, 82, 86, 87, 88, 89, 90, 91, 92, 93, 94, 95, 96, 97, 98, 99}>>,
      <<104, {78}>>,
      <<110, {44, 77}>>,
      <<112, {28}>>,
      <<115, {46, 92}>>,
      <<116, {29, 87}>>,
      <<118, {59}>>,
      <<120, {12, 30, 54, 60, 78, 90, 102, 108}>>,
      <<125, {45, 60, 75, 90}>>,
      <<130, {13, 78, 91, 104}>>,
      <<135, {108}>>,
      <<136, {102}>>,
      <<140, {14, 77, 91}>>,
      <<144, {108}>>,
      <<148, {74}>>,
      <<150, {63, 75, 90, 93, 108, 123, 132, 141}>>,
      <<152, {76}>>,
      <<154, {77}>>,
      <<155, {93, 124}>>,
      <<164, {123}>>,
      <<165, {132}>>,
      <<168, {126}>>,
      <<170, {102, 119, 136, 153}>>,
      <<172, {43}>>,
      <<175, {21, 77, 91, 126, 133, 140}>>,
      <<176, {44, 132}>>,
      <<180, {90}>>,
      <<182, {91}>>,
      <<184, {92}>>,
      <<185, {74, 148}>>,
      <<186, {93}>>,
      <<195, {156}>>,
      <<200, {28, 44, 70, 74, 76, 86, 90, 92, 94, 106, 108, 110, 122, 124, 126, 132, 134, 140, 142, 148, 150, 156, 158, 164, 166, 172, 174, 180, 182, 188, 190, 196, 198}>>,
      <<208, {156}>>,
      <<210, {21, 189}>>,
      <<212, {106}>>,
      <<214, {107}>>,
      <<215, {172}>>,
      <<216, {108}>>,
      <<218, {109}>>,
      <<225, {90, 108, 126, 180, 189, 198, 207, 216}>>,
      <<232, {174}>>,
      <<235, {141, 188}>>,
      <<236, {59}>>,
      <<240, {60, 108, 132, 156, 180, 204, 228}>>,
      <<244, {122}>>,
      <<246, {123}>>,
      <<248, {124}>>,
      <<250, {60, 90, 105, 110, 125, 140, 165, 180, 190, 205, 215, 220, 230, 240, 245}>>,
      <<255, {204}>> }

\* int(((c - k) / (1 - k)) * 100) for one channel, lines 66-78:
\* c - k = (max - channel)/255 and 1 - k = max/255.
ChannelPercent(channel, mx) ==
    LET exact == (100 * (mx - channel)) \div mx
    IN  IF \E e \in FloatLowChannel : e[1] = mx /\ channel \in e[2]
        THEN exact - 1
        ELSE exact

\* int(k * 100) with k = 1 - max/255.0, line 79.  The double is below the
\* integer only for max = 204 (19.999999999999996).
KPercent(mx) ==
    LET exact == (100 * (255 - mx)) \div 255
    IN  IF mx = 204 THEN exact - 1 ELSE exact

rgb_to_cmyk(r, g, b) ==
    IF r = 0 /\ g = 0 /\ b = 0 THEN <<0, 0, 0, 100>>
    ELSE IF r = 255 /\ g = 255 /\ b = 255 THEN <<0, 0, 0, 0>>
    ELSE LET mx == Max3(r, g, b)
         IN  IF mx = 0 THEN <<0, 0, 0, 100>>
             ELSE <<ChannelPercent(r, mx), ChannelPercent(g, mx),
                    ChannelPercent(b, mx), KPercent(mx)>>

\* int(255 * (1 - c/100.0) * (1 - k/100.0)) for one channel, lines 46-55.
\* The double is below the integer 51 for (c, k) = (0, 80) and (80, 0).
BackChannel(c, k) ==
    LET exact == (255 * (100 - c) * (100 - k)) \div 10000
    IN  IF (c = 0 /\ k = 80) \/ (c = 80 /\ k = 0) THEN exact - 1 ELSE exact

\* cmyk_to_rgb with the black component left out of the product.
cmyk_to_rgb_no_black(c, m, y, k) ==
    <<BackChannel(c, 0), BackChannel(m, 0), BackChannel(y, 0)>>

cmyk_to_rgb(c, m, y, k) ==
    <<BackChannel(c, k), BackChannel(m, k), BackChannel(y, k)>>

\* (r1 - r2)**2 + (g1 - g2)**2 + (b1 - b2)**2 of line 102, before the root.
SquaredDifference(p, q) ==
    (p[1] - q[1]) * (p[1] - q[1]) + (p[2] - q[2]) * (p[2] - q[2])
      + (p[3] - q[3]) * (p[3] - q[3])

\* math.sqrt(d2) > 30 (line 106): for an integer d2 this is d2 > 900.
ExceedsThreshold(d2) == d2 > GAMUT_THRESHOLD * GAMUT_THRESHOLD

\* The inputs of SpecColour: every red and green value with three blue
\* values.  Each channel is converted from its own value and the largest of
\* the three only, so these triples exercise every (channel, max) pair.
BlueLevels == {0, 128, 255}
ColourInputs == { <<r, g, b>> : r \in 0..255, g \in 0..255, b \in BlueLevels }

(***************************************************************************)
(* Darken blend, one pixel channel of apply_blend_darken.                   *)
(***************************************************************************)

\* The fill percentages SpecBlend draws from; create_poster passes 95.
FillValues == {0, 1, 50, 95, 100}
OverlayAlphas == {255}

\* <<fill, base, darken>>: the double base * (1 - fill/100.0) +
\* darken * (fill/100.0) of line 129 is just below the integer the exact
\* value reaches (for instance 3 * 0.99 + 3 * 0.01 = 2.9999999999999996),
\* and astype('uint8') gives one less.  Among FillValues only fill = 1 has
\* such inputs.
FloatLowBlend ==
    { <<1, 3, 3>>, <<1, 6, 6>>, <<1, 12, 12>>, <<1, 24, 24>>, <<1, 41, 41>>,
      <<1, 48, 48>>, <<1, 82, 82>>, <<1, 96, 96>>, <<1, 107, 7>>,
      <<1, 107, 107>>, <<1, 121, 21>>, <<1, 121, 121>>, <<1, 139, 39>>,
      <<1, 139, 139>>, <<1, 164, 64>>, <<1, 164, 164>>, <<1, 189, 89>>,
      <<1, 189, 189>>, <<1, 192, 92>>, <<1, 192, 192>>, <<1, 214, 14>>,
      <<1, 214, 114>>, <<1, 214, 214>>, <<1, 217, 17>>, <<1, 217, 117>>,
      <<1, 217, 217>>, <<1, 239, 39>>, <<1, 239, 139>>, <<1, 239, 239>>,
      <<1, 242, 42>>, <<1, 242, 142>>, <<1, 242, 242>> }

\* np.minimum(base, overlay), line 127.
Darken(base, overlay) == Min2(base, overlay)

\* (base * (1 - fill_factor) + darken * fill_factor).astype('uint8'),
\* lines 128-133, for one channel.
BlendChannel(base, overlay, fill) ==
    LET d == Darken(base, overlay)
        exact == (base * (100 - fill) + d * fill) \div 100
    IN  IF <<fill, base, d>> \in FloatLowBlend THEN exact - 1 ELSE exact

\* (overlay alpha * opacity / 100.0).astype(int), line 130.
BlendAlpha(alpha, opacity) == (alpha * opacity) \div 100

apply_blend_darken(base, overlay, alpha, opacity, fill) ==
    [channel |-> BlendChannel(base, overlay, fill),
     alpha |-> BlendAlpha(alpha, opacity)]

(***************************************************************************)
(* Text layout.  Horizontal positions are in units of 1/2000 pixel, which   *)
(* makes (font.size / 1000) * tracking and the halving of line 141 exact.   *)
(***************************************************************************)
UNITS_PER_PIXEL == 2 * 1000

\* Advance width of a glyph in thousandths of an em, a property of the font
\* file that draw.textlength reads (line 139).
GlyphEm(char) ==
    CASE char = "i" -> 250
      [] char = "o" -> 500
      [] OTHER -> 750

\* draw.textlength(char, font=font), line 139.
textlength(char, font) == (UNITS_PER_PIXEL \div 1000) * font.size * GlyphEm(char)

\* (font.size // 1000) * tracking: the size divided as an integer.
TrackingPixels_floor_division(font, tracking) ==
    UNITS_PER_PIXEL * (font.size \div 1000) * tracking

\* tracking_pixels = (font.size / 1000) * tracking, line 138.
TrackingPixels(font, tracking) ==
    (UNITS_PER_PIXEL \div 1000) * font.size * tracking

RECURSIVE SumSeq(_)
SumSeq(s) == IF s = <<>> THEN 0 ELSE Head(s) + SumSeq(Tail(s))

\* sum(char_widths) + tracking_pixels * len(text): one gap too many.
TotalWidth_trailing_gap(char_widths, tracking_pixels) ==
    SumSeq(char_widths) + tracking_pixels * Len(char_widths)

\* total_width = sum(char_widths) + tracking_pixels * (len(text) - 1), line 140.
TotalWidth(char_widths, tracking_pixels) ==
    SumSeq(char_widths) + tracking_pixels * (Len(char_widths) - 1)

\* The loop of lines 142-144: the x of every draw.text call.
RECURSIVE PlaceGlyphs(_, _, _)
PlaceGlyphs(char_widths, tracking_pixels, current_x) ==
    IF char_widths = <<>> THEN <<>>
    ELSE <<current_x>> \o PlaceGlyphs(Tail(char_widths), tracking_pixels,
                                      current_x + Head(char_widths) + tracking_pixels)

\* draw_text_with_tracking, lines 136-144: what it measures and where it
\* draws.  A font object without a size attribute (the bitmap default font)
\* makes line 138 raise AttributeError.
draw_text_with_tracking(text, y_pos, font, tracking, poster_width) ==
    IF font.kind = "bitmap" THEN [raised |-> "AttributeError"]
    ELSE LET tracking_pixels == TrackingPixels(font, tracking)
             char_widths == [i \in 1..Len(text) |-> textlength(text[i], font)]
             total_width == TotalWidth(char_widths, tracking_pixels)
             start_x == (poster_width * UNITS_PER_PIXEL - total_width) \div 2
         IN  [raised |-> "",
              text |-> text,
              y_pos |-> y_pos,
              font |-> font,
              poster_width |-> poster_width,
              tracking_pixels |-> tracking_pixels,
              char_widths |-> char_widths,
              total_width |-> total_width,
              xs |-> PlaceGlyphs(char_widths, tracking_pixels, start_x)]

(***************************************************************************)
(* Unit conversion.                                                         *)
(***************************************************************************)

\* MM_TO_INCH * dpi = 300 / 25.4 = 1500 / 127 pixels per millimetre.
PX_NUM == DPI * 5
PX_DEN == 127

\* int(mm * MM_TO_INCH * dpi) for a whole number of millimetres, lines 33-35.
mm_to_pixels(mm) == TruncDiv(mm * PX_NUM, PX_DEN)

\* mm_to_pixels(x * scale) for x given in hundredths of a millimetre and
\* scale = s[1] / s[2] (lines 172-173, 187-192).
mm_to_pixels_scaled(mm100, s) ==
    TruncDiv(mm100 * s[1] * (PX_NUM \div 100), s[2] * PX_DEN)

\* The ratio of the heights instead of the ratio of the widths.
get_scale_factor_from_heights(paper_size) ==
    IF paper_size = "A3" THEN <<1, 1>> ELSE <<A4_HEIGHT_MM, A3_HEIGHT_MM>>

\* get_scale_factor, lines 37-42, as numerator and denominator.
get_scale_factor(paper_size) ==
    IF paper_size = "A3" THEN <<1, 1>> ELSE <<A4_WIDTH_MM, A3_WIDTH_MM>>

WidthMm(paper_size) == IF paper_size = "A3" THEN A3_WIDTH_MM ELSE A4_WIDTH_MM
HeightMm(paper_size) == IF paper_size = "A3" THEN A3_HEIGHT_MM ELSE A4_HEIGHT_MM

(***************************************************************************)
(* The raster.  A poster is its size and the list of what has been drawn    *)
(* on it, oldest first; a later layer covers an earlier one.                *)
(***************************************************************************)
Black == <<0, 0, 0>>
White == <<255, 255, 255>>
\* The colour of a pixel that depends on the pixels of an asset or a glyph.
Unknown == <<-1, -1, -1>>

Layer(kind, x0, y0, x1, y1, colour, param) ==
    [kind |-> kind, x0 |-> x0, y0 |-> y0, x1 |-> x1, y1 |-> y1,
     colour |-> colour, param |-> param]

\* Image.new('RGB', (width_px, height_px), bg_color), line 158.
NewImage(width_px, height_px, bg_color) ==
    [width |-> width_px, height |-> height_px,
     layers |-> <<Layer("fill", 0, 0, width_px - 1, height_px - 1, bg_color, 0)>>]

Draw(image, layer) == [image EXCEPT !.layers = Append(@, layer)]

\* draw.rectangle([(x0, y0), (x1, y1)], outline=..., width=w): the pixels the
\* outline paints.  Pillow draws, for i in 0..w-1, the rows y0 + i and y1 - i
\* from x0 to x1 and the columns x0 + i and x1 - i from y0 + w to y1 - w + 1,
\* both corners inclusive, and drops what falls outside the image.
RectangleOutlineCovers(l, x, y) ==
    \/ /\ l.x0 <= x /\ x <= l.x1
       /\ \/ l.y0 <= y /\ y <= l.y0 + l.param - 1
          \/ l.y1 - l.param + 1 <= y /\ y <= l.y1
    \/ /\ l.y0 + l.param <= y /\ y <= l.y1 - l.param + 1
       /\ \/ l.x0 <= x /\ x <= l.x0 + l.param - 1
          \/ l.x1 - l.param + 1 <= x /\ x <= l.x1

InBox(l, x, y) == l.x0 <= x /\ x <= l.x1 /\ l.y0 <= y /\ y <= l.y1

\* The colour of pixel (x, y) after the first n layers.
RECURSIVE PixelAfter(_, _, _, _)
PixelAfter(layers, n, x, y) ==
    IF n = 0 THEN Unknown
    ELSE LET l == layers[n]
             below == PixelAfter(layers, n - 1, x, y)
         IN  CASE l.kind = "fill" -> l.colour
               [] l.kind = "border" ->
                    IF RectangleOutlineCovers(l, x, y) THEN l.colour ELSE below
               [] l.kind = "text" -> IF l.param = 0 THEN below ELSE Unknown
               [] l.kind = "texture" -> Unknown
               [] OTHER -> IF InBox(l, x, y) THEN Unknown ELSE below

PixelColour(image, x, y) == PixelAfter(image.layers, Len(image.layers), x, y)

Kinds(image) == [i \in 1..Len(image.layers) |-> image.layers[i].kind]

(***************************************************************************)
(* create_poster, lines 146-219, statement by statement.                    *)
(***************************************************************************)

\* What comes of loading one image asset:
\*   "failed"     load_image_from_github caught an exception (the request,
\*                the HTTP status, or Image.open not recognising the bytes)
\*                and returned None (lines 118-120);
\*   "loaded"     an image that decodes;
\*   "truncated"  Image.open recognised the header and returned an image
\*                (line 117 reads no pixel data), and the pixel data turn out
\*                to be cut short when resize or convert first decodes them.
ImageOutcomes == {"failed", "loaded", "truncated"}

\* Width and height in pixels of the photo asset.
PhotoSizes == { <<1000, 1000>>, <<2000, 3000>> }

\* ImageFont.load_default() (lines 207-208): Pillow from 10.1 on returns a
\* FreeType font of size 10; earlier versions return the built-in bitmap
\* font, an object without a size attribute.
DEFAULT_FONT_SIZE == 10
DefaultFonts == { [kind |-> "default", size |-> DEFAULT_FONT_SIZE],
                  [kind |-> "bitmap", size |-> 0] }

NoImage == [width |-> 0, height |-> 0, layers |-> <<>>]
NoLayout == [raised |-> "unset"]
NoFont == [kind |-> "unset", size |-> 0]
NoImages == [texture |-> "unset", main_image |-> "unset", logo |-> "unset",
             font |-> "unset"]

\* Lines 148-158.
CreateCanvas ==
    /\ pc = "call"
    /\ scale' = get_scale_factor(args.paper_size)
    /\ poster' = NewImage(mm_to_pixels(WidthMm(args.paper_size)),
                          mm_to_pixels(HeightMm(args.paper_size)),
                          args.bg_color)
    /\ pc' = "texture"
    /\ UNCHANGED <<args, images, fonts, layouts, raised, result, colour_vars, blend_vars, text_vars>>

\* Lines 160-164.
TextureStage ==
    /\ pc = "texture"
    /\ \E outcome \in ImageOutcomes :
         /\ images' = [images EXCEPT !.texture = outcome]
         /\ poster' = IF outcome = "loaded"
                      THEN Draw(poster, Layer("texture", 0, 0, poster.width - 1,
                                              poster.height - 1, Unknown,
                                              TEXTURE_FILL))
                      ELSE poster
         /\ raised' = IF outcome = "truncated" THEN "OSError" ELSE raised
         /\ pc' = IF outcome = "truncated" THEN "raised" ELSE "photo"
    /\ UNCHANGED <<args, scale, fonts, layouts, result, colour_vars, blend_vars, text_vars>>

\* The paste of the photo, lines 171-180.
PhotoLayer(image, s, size) ==
    LET new_width_px == mm_to_pixels_scaled(A3_WIDTH_MM * 100, s)
        new_height_px == (new_width_px * size[2]) \div size[1]
        x == (image.width - new_width_px) \div 2
        y == image.height - new_height_px
    IN  Layer("photo", x, y, x + new_width_px - 1, y + new_height_px - 1,
              Unknown, 0)

\* Lines 166-180.
PhotoStage ==
    /\ pc = "photo"
    /\ \E outcome \in ImageOutcomes, size \in PhotoSizes :
         /\ images' = [images EXCEPT !.main_image = outcome]
         /\ poster' = IF outcome = "loaded"
                      THEN Draw(poster, PhotoLayer(poster, scale, size))
                      ELSE poster
         /\ raised' = IF outcome = "truncated" THEN "OSError" ELSE raised
         /\ pc' = IF outcome = "truncated" THEN "raised" ELSE "logo"
    /\ UNCHANGED <<args, scale, fonts, layouts, result, colour_vars, blend_vars, text_vars>>

LOGO_TOP_MM100 == 7060
LOGO_WIDTH_MM100 == 21776
LOGO_HEIGHT_MM100 == 9914

\* The paste of the logo, lines 187-197.
LogoLayer(image, s) ==
    LET logo_top_px == mm_to_pixels_scaled(LOGO_TOP_MM100, s)
        logo_width_px == mm_to_pixels_scaled(LOGO_WIDTH_MM100, s)
        logo_height_px == mm_to_pixels_scaled(LOGO_HEIGHT_MM100, s)
        logo_x == (image.width - logo_width_px) \div 2
        logo_y == logo_top_px - (logo_height_px \div 2)
    IN  Layer("logo", logo_x, logo_y, logo_x + logo_width_px - 1,
              logo_y + logo_height_px - 1, Unknown, 0)

\* Lines 182-197.
LogoStage ==
    /\ pc = "logo"
    /\ \E outcome \in ImageOutcomes :
         /\ images' = [images EXCEPT !.logo = outcome]
         /\ poster' = IF outcome = "loaded"
                      THEN Draw(poster, LogoLayer(poster, scale))
                      ELSE poster
         /\ raised' = IF outcome = "truncated" THEN "OSError" ELSE raised
         /\ pc' = IF outcome = "truncated" THEN "raised" ELSE "font"
    /\ UNCHANGED <<args, scale, fonts, layouts, result, colour_vars, blend_vars, text_vars>>

\* int(line_size * FONT_SCALE_MULTIPLIER), lines 203 and 205.
RequestedFontSize(line_size) == line_size * FONT_SCALE_MULTIPLIER

\* Lines 201-208.  ImageFont.truetype raises for bytes that are no font and
\* for a size that is not positive; the bare except then replaces both fonts.
LoadFonts ==
    /\ pc = "font"
    /\ \E fetched \in BOOLEAN, default_font \in DefaultFonts :
         LET size1 == RequestedFontSize(args.line1_size)
             size2 == RequestedFontSize(args.line2_size)
             ok == fetched /\ size1 > 0 /\ size2 > 0
         IN  /\ fonts' = IF ok
                         THEN <<[kind |-> "truetype", size |-> size1],
                                [kind |-> "truetype", size |-> size2]>>
                         ELSE <<default_font, default_font>>
             /\ images' = [images EXCEPT
                             !.font = IF ok THEN "loaded" ELSE "failed"]
    /\ pc' = "line1"
    /\ UNCHANGED <<args, scale, poster, layouts, raised, result, colour_vars, blend_vars, text_vars>>

\* One call of draw_text_with_tracking from create_poster.
DrawLine(n, text, y_mm, next_pc) ==
    LET y_pos == mm_to_pixels(y_mm)
        lay == draw_text_with_tracking(text, y_pos, fonts[n], args.tracking,
                                       poster.width)
    IN  IF lay.raised # ""
        THEN /\ raised' = lay.raised
             /\ pc' = "raised"
             /\ UNCHANGED <<poster, layouts>>
        ELSE /\ layouts' = [layouts EXCEPT ![n] = lay]
             /\ poster' = Draw(poster, Layer("text", 0, y_pos, poster.width - 1,
                                             y_pos, White, Len(text)))
             /\ pc' = next_pc
             /\ UNCHANGED raised

\* Lines 210 and 213.
DrawLine1 ==
    /\ pc = "line1"
    /\ DrawLine(1, args.line1_text, args.line1_y_mm, "line2")
    /\ UNCHANGED <<args, scale, images, fonts, result, colour_vars, blend_vars, text_vars>>

\* Lines 211 and 214.
DrawLine2 ==
    /\ pc = "line2"
    /\ DrawLine(2, args.line2_text, args.line2_y_mm, "border")
    /\ UNCHANGED <<args, scale, images, fonts, result, colour_vars, blend_vars, text_vars>>

\* Lines 216-219.
DrawBorder ==
    /\ pc = "border"
    /\ poster' = Draw(poster, Layer("border", 0, 0, poster.width, poster.height,
                                    Black, mm_to_pixels(BORDER_MM)))
    /\ result' = poster'
    /\ pc' = "returned"
    /\ UNCHANGED <<args, scale, images, fonts, layouts, raised, colour_vars, blend_vars, text_vars>>

(***************************************************************************)
(* The handlers of the other three specifications.                          *)
(***************************************************************************)

\* check_gamut_warning, lines 84-109, on a triple of integers.
check_gamut_warning ==
    /\ gamut_pc = "input"
    /\ LET q == rgb_to_cmyk(original_rgb[1], original_rgb[2], original_rgb[3])
           back == cmyk_to_rgb(q[1], q[2], q[3], q[4])
       IN  /\ cmyk' = q
           /\ round_trip_rgb' = back
           /\ gamut' = IF ExceedsThreshold(SquaredDifference(original_rgb, back))
                       THEN [is_out_of_gamut |-> TRUE, closest |-> back]
                       ELSE [is_out_of_gamut |-> FALSE, closest |-> Unknown]
    /\ gamut_pc' = "done"
    /\ UNCHANGED <<original_rgb, blend_vars, text_vars, poster_vars>>

\* apply_blend_darken on one channel of one pixel.
BlendPixel ==
    /\ blend_pc = "input"
    /\ blend_out' = apply_blend_darken(blend_in.base, blend_in.overlay,
                                       blend_in.alpha, blend_in.opacity,
                                       blend_in.fill)
    /\ blend_pc' = "done"
    /\ UNCHANGED <<blend_in, colour_vars, text_vars, poster_vars>>

\* draw_text_with_tracking on one line.
LayoutLine ==
    /\ text_pc = "input"
    /\ text_out' = draw_text_with_tracking(text_in.text, text_in.y_pos,
                                           text_in.font, text_in.tracking,
                                           text_in.poster_width)
    /\ text_pc' = "drawn"
    /\ UNCHANGED <<text_in, colour_vars, blend_vars, poster_vars>>

(***************************************************************************)
(* Inputs.                                                                  *)
(***************************************************************************)
MaxLen == 3
Alphabet == {"i", "o"}
Texts == UNION { [1..n -> Alphabet] : n \in 0..MaxLen }

\* The range of the tracking slider, line 282.
TRACKING_MIN == -50
TRACKING_MAX == 200

\* Fonts of SpecText: the smallest and the default line-1 size of the
\* sliders (lines 287, 293) times FONT_SCALE_MULTIPLIER, and the default font.
TextFonts == { [kind |-> "truetype", size |-> 80],
               [kind |-> "truetype", size |-> 648],
               [kind |-> "default", size |-> DEFAULT_FONT_SIZE] }

PosterWidths == { mm_to_pixels(A3_WIDTH_MM), mm_to_pixels(A4_WIDTH_MM) }

\* The parameters create_poster is called with: the values the form offers
\* (lines 229-294) and, for the sizes and the vertical positions, values
\* outside the page and below zero, which a caller of the function can pass.
PosterArgs ==
    [paper_size : {"A3", "A4"},
     bg_color : { <<255, 0, 0>>, <<128, 128, 128>> },
     line1_text : { <<>>, <<"o", "a", "s", "i", "s">> },
     line1_size : {162, -10},
     line1_y_mm : {330, 500},
     line2_text : { <<>>, <<"o", "i">> },
     line2_size : {43, -5},
     line2_y_mm : {387, -20},
     tracking : {0, 50}]

ColourIdle ==
    /\ original_rgb = Black /\ cmyk = <<0, 0, 0, 0>> /\ round_trip_rgb = Black
    /\ gamut = [is_out_of_gamut |-> FALSE, closest |-> Unknown]
    /\ gamut_pc = "idle"

BlendIdle ==
    /\ blend_in = [base |-> 0, overlay |-> 0, alpha |-> 0, opacity |-> 0,
                   fill |-> 0]
    /\ blend_out = [channel |-> 0, alpha |-> 0]
    /\ blend_pc = "idle"

TextIdle ==
    /\ text_in = [text |-> <<>>, y_pos |-> 0, font |-> NoFont, tracking |-> 0,
                  poster_width |-> 0]
    /\ text_out = NoLayout
    /\ text_pc = "idle"

PosterIdle ==
    /\ args = [paper_size |-> "A3", bg_color |-> White, line1_text |-> <<>>,
               line1_size |-> 0, line1_y_mm |-> 0, line2_text |-> <<>>,
               line2_size |-> 0, line2_y_mm |-> 0, tracking |-> 0]
    /\ pc = "idle"
    /\ scale = <<0, 1>>
    /\ images = NoImages
    /\ poster = NoImage
    /\ fonts = <<NoFont, NoFont>>
    /\ layouts = <<NoLayout, NoLayout>>
    /\ raised = ""
    /\ result = NoImage

(***************************************************************************)
(* Specifications.                                                          *)
(***************************************************************************)
InitColour ==
    /\ original_rgb \in ColourInputs
    /\ cmyk = <<0, 0, 0, 0>> /\ round_trip_rgb = Black
    /\ gamut = [is_out_of_gamut |-> FALSE, closest |-> Unknown]
    /\ gamut_pc = "input"
    /\ BlendIdle /\ TextIdle /\ PosterIdle

NextColour == check_gamut_warning

SpecColour == InitColour /\ [][NextColour]_vars

InitBlend ==
    /\ blend_in \in [base : 0..255, overlay : 0..255, alpha : OverlayAlphas,
                     opacity : {TEXTURE_OPACITY}, fill : FillValues]
    /\ blend_out = [channel |-> 0, alpha |-> 0]
    /\ blend_pc = "input"
    /\ ColourIdle /\ TextIdle /\ PosterIdle

NextBlend == BlendPixel

SpecBlend == InitBlend /\ [][NextBlend]_vars

InitText ==
    /\ text_in \in [text : Texts, y_pos : {0}, font : TextFonts,
                    tracking : TRACKING_MIN..TRACKING_MAX,
                    poster_width : PosterWidths]
    /\ text_out = NoLayout
    /\ text_pc = "input"
    /\ ColourIdle /\ BlendIdle /\ PosterIdle

NextText == LayoutLine

SpecText == InitText /\ [][NextText]_vars

Init ==
    /\ args \in PosterArgs
    /\ pc = "call"
    /\ scale = <<0, 1>>
    /\ images = NoImages
    /\ poster = NoImage
    /\ fonts = <<NoFont, NoFont>>
    /\ layouts = <<NoLayout, NoLayout>>
    /\ raised = ""
    /\ result = NoImage
    /\ ColourIdle /\ BlendIdle /\ TextIdle

Next ==
    \/ CreateCanvas
    \/ TextureStage
    \/ PhotoStage
    \/ LogoStage
    \/ LoadFonts
    \/ DrawLine1
    \/ DrawLine2
    \/ DrawBorder

Spec == Init /\ [][Next]_vars

(***************************************************************************)
(* Properties.                                                              *)
(***************************************************************************)

Abs(a) == IF a < 0 THEN -a ELSE a

Red == <<255, 0, 0>>
Grey == <<128, 128, 128>>

\* C1: check_gamut_warning flags pure red (255,0,0) as out of gamut and does
\* not flag the grey (128,128,128); the flag is set exactly when the
\* Euclidean distance between the input and its round trip exceeds 30.
C1_GamutFlagsRedNotGrey ==
    gamut_pc = "done" =>
      /\ original_rgb = Red => gamut.is_out_of_gamut
      /\ original_rgb = Grey => ~gamut.is_out_of_gamut
      /\ gamut.is_out_of_gamut <=>
           ExceedsThreshold(SquaredDifference(original_rgb, round_trip_rgb))

\* What the conversion does with pure red: an exact round trip, no flag.
C1_RedRoundTripsExactly ==
    /\ gamut_pc = "done"
    /\ original_rgb = Red
    /\ cmyk = <<0, 100, 100, 0>>
    /\ round_trip_rgb = Red
    /\ ~gamut.is_out_of_gamut

\* C2: for every triple (r,g,b) in 0..255 each channel of
\* cmyk_to_rgb(rgb_to_cmyk(r,g,b)) differs from the original channel by at
\* most 5, and every CMYK component in between is an integer in 0..100.
C2_RoundTripBounded ==
    gamut_pc = "done" =>
      /\ \A i \in 1..3 : Abs(round_trip_rgb[i] - original_rgb[i]) <= 5
      /\ \A j \in 1..4 : cmyk[j] \in 0..100

\* A colour the round trip changes: (162,176,0) comes back as (166,178,0).
C2_LossyRoundTrip ==
    /\ gamut_pc = "done"
    /\ original_rgb = <<162, 176, 0>>
    /\ cmyk = <<7, 0, 100, 30>>
    /\ round_trip_rgb = <<166, 178, 0>>

NoAssets ==
    /\ images.texture = "failed"
    /\ images.main_image = "failed"
    /\ images.logo = "failed"

\* (x, y) lies within b pixels of one of the four edges of a w x h canvas.
NearEdge(x, y, w, h, b) == x < b \/ x >= w - b \/ y < b \/ y >= h - b

\* C3: a render with no asset and no text returns a raster of
\* mm_to_pixels(width_mm) x mm_to_pixels(height_mm) pixels (A3: 3507x4960,
\* A4: 2480x3507) in which every pixel within mm_to_pixels(10) = 118 pixels
\* of any of the four edges is black and every other pixel has the
\* background colour.
C3_BlankRenderFramed ==
    (pc = "returned" /\ NoAssets /\ args.line1_text = <<>>
       /\ args.line2_text = <<>>) =>
      /\ result.width = mm_to_pixels(WidthMm(args.paper_size))
      /\ result.height = mm_to_pixels(HeightMm(args.paper_size))
      /\ args.paper_size = "A3" => result.width = 3507 /\ result.height = 4960
      /\ args.paper_size = "A4" => result.width = 2480 /\ result.height = 3507
      /\ mm_to_pixels(BORDER_MM) = 118
      /\ \A x \in 0..(result.width - 1) : \A y \in 0..(result.height - 1) :
           PixelColour(result, x, y) =
             IF NearEdge(x, y, result.width, result.height,
                         mm_to_pixels(BORDER_MM))
             THEN Black ELSE args.bg_color

\* The blank render is returned, and the 118th column from the right edge
\* keeps the background colour half way down the page.
C3_RightBandOnePixelShort ==
    /\ pc = "returned" /\ NoAssets
    /\ args.line1_text = <<>> /\ args.line2_text = <<>>
    /\ args.bg_color = Red
    /\ PixelColour(result, result.width - 118, result.height \div 2) = Red
    /\ PixelColour(result, result.width - 117, result.height \div 2) = Black
    /\ PixelColour(result, 117, result.height \div 2) = Black

\* A negative point size, or a vertical position outside the page.
InvalidParameters(a) ==
    \/ a.line1_size < 0 \/ a.line2_size < 0
    \/ a.line1_y_mm < 0 \/ a.line1_y_mm > HeightMm(a.paper_size)
    \/ a.line2_y_mm < 0 \/ a.line2_y_mm > HeightMm(a.paper_size)

\* C4: called with an invalid parameter, create_poster fails fast with a
\* validation error of its own and returns no raster: no stage runs, and it
\* never renders a poster from such parameters.
C4_InvalidParametersRejected ==
    InvalidParameters(args) =>
      /\ pc \in {"call", "raised"}
      /\ pc = "raised" => raised = "ValidationError"
      /\ result = NoImage

\* A poster rendered and returned from a negative size and a position off
\* the page.
C4_SilentRender ==
    /\ pc = "returned"
    /\ args.line1_size < 0
    /\ args.line1_y_mm > HeightMm(args.paper_size)
    /\ result # NoImage
    /\ raised = ""

\* C5: when loading the font fails, create_poster does not abort and draws
\* each line with the default typeface at that line's requested size
\* int(point_size * 4), so the tracking offset is the one of the real font.
C5_FallbackKeepsSize ==
    images.font = "failed" =>
      /\ pc # "raised"
      /\ fonts[1].size = RequestedFontSize(args.line1_size)
      /\ fonts[2].size = RequestedFontSize(args.line2_size)
      /\ \A n \in 1..2 :
           layouts[n].raised = "" =>
             layouts[n].tracking_pixels =
               TrackingPixels([kind |-> "truetype",
                               size |-> RequestedFontSize(
                                          IF n = 1 THEN args.line1_size
                                          ELSE args.line2_size)],
                              args.tracking)

\* The fallback as the code does it: valid sizes, the font not loaded, the
\* poster returned with both lines at the default font's size.
C5_FallbackAtDefaultSize ==
    /\ pc = "returned"
    /\ images.font = "failed"
    /\ args.line1_size = 162 /\ args.line2_size = 43
    /\ fonts[1].size = DEFAULT_FONT_SIZE /\ fonts[2].size = DEFAULT_FONT_SIZE

\* The layers of a poster whose stages ran in the fixed order, the stage of
\* every asset that is not there left out.
ExpectedKinds(im) ==
    <<"fill">>
      \o (IF im.texture = "loaded" THEN <<"texture">> ELSE <<>>)
      \o (IF im.main_image = "loaded" THEN <<"photo">> ELSE <<>>)
      \o (IF im.logo = "loaded" THEN <<"logo">> ELSE <<>>)
      \o <<"text", "text", "border">>

SomeAssetMissing ==
    \E a \in {images.texture, images.main_image, images.logo} :
       a \in {"failed", "truncated"}

\* C6: whichever of texture, photo and logo fail to load or decode,
\* create_poster completes and returns a raster made of the remaining stages
\* in the order fill, texture, photo, logo, text, border.  (Stated for the
\* runs in which the font loads, so that only the image assets decide it.)
C6_FailedAssetsSkipped ==
    (pc \in {"returned", "raised"} /\ SomeAssetMissing
       /\ images.font # "failed") =>
      /\ pc = "returned"
      /\ Kinds(result) = ExpectedKinds(images)

\* The part of C6 that holds: an asset that load_image_from_github gave up
\* on (None) is skipped, and the stages that run keep the fixed order.
C6_MissingAssetsSkipped ==
    (pc = "returned" /\ SomeAssetMissing) =>
      Kinds(result) = ExpectedKinds(images)

\* A texture whose pixel data are cut short: create_poster ends with the
\* decoder's exception and returns nothing.
C6_TruncatedTextureAborts ==
    /\ pc = "raised"
    /\ images.texture = "truncated"
    /\ raised = "OSError"
    /\ result = NoImage

\* C7, as written: Small 210/297 equals Large 297/420, so the factor
\* get_scale_factor returns for the small size equals the ratio of the
\* heights.
C7_EqualRatios ==
    (pc # "call" /\ args.paper_size = "A4") =>
      /\ A4_WIDTH_MM * A3_HEIGHT_MM = A4_HEIGHT_MM * A3_WIDTH_MM
      /\ scale[1] * A3_HEIGHT_MM = scale[2] * A4_HEIGHT_MM

\* C7, amended: the factor for the small size is the ratio of the widths,
\* 210/297, which is smaller than the ratio of the heights; the large height
\* times the factor is less than 1/10 mm short of the small height, and both
\* axes of the large page scaled by it convert to the small canvas's pixels.
C7_ScaleIsWidthRatio ==
    pc # "call" =>
      /\ args.paper_size = "A3" => scale = <<1, 1>>
      /\ args.paper_size = "A4" =>
           /\ scale[1] * A3_WIDTH_MM = scale[2] * A4_WIDTH_MM
           /\ scale[1] * A3_HEIGHT_MM < scale[2] * A4_HEIGHT_MM
           /\ 10 * (scale[2] * A4_HEIGHT_MM - scale[1] * A3_HEIGHT_MM) < scale[2]
      /\ mm_to_pixels_scaled(A3_WIDTH_MM * 100, scale) = poster.width
      /\ mm_to_pixels_scaled(A3_HEIGHT_MM * 100, scale) = poster.height

C7_SmallPosterReturned ==
    /\ pc = "returned"
    /\ args.paper_size = "A4"
    /\ scale = <<A4_WIDTH_MM, A3_WIDTH_MM>>
    /\ result.width = 2480 /\ result.height = 3507

\* C8: with tracking = 0 the total line width is the sum of the glyph
\* widths; for a string of more than one character the total is
\* sum + (font.size/1000) * tracking * (length - 1), and every smaller
\* positive tracking gives a strictly smaller total.
C8_WidthGrowsWithTracking ==
    text_pc = "drawn" =>
      LET n == Len(text_in.text)
          w == text_out.char_widths
      IN  /\ text_in.tracking = 0 => text_out.total_width = SumSeq(w)
          /\ n > 1 =>
               /\ text_out.total_width =
                    SumSeq(w)
                      + (UNITS_PER_PIXEL \div 1000) * text_in.font.size
                          * text_in.tracking * (n - 1)
               /\ \A t \in 1..(text_in.tracking - 1) :
                    TotalWidth(w, TrackingPixels(text_in.font, t))
                      < text_out.total_width

C8_WideTrackedLine ==
    /\ text_pc = "drawn"
    /\ Len(text_in.text) = 3
    /\ text_in.tracking = TRACKING_MAX
    /\ text_out.total_width > SumSeq(text_out.char_widths)

\* C9: glyph i of a non-empty line is drawn at
\* (canvasWidth - totalWidth)/2 + sum over j < i of (width_j + trackingPixels),
\* the right edge of the last glyph is at startX + totalWidth, and the gap
\* left of the first glyph equals the gap right of the last one.
C9_LineCentred ==
    (text_pc = "drawn" /\ Len(text_in.text) >= 1) =>
      LET n == Len(text_in.text)
          w == text_out.char_widths
          tp == text_out.tracking_pixels
          canvas == text_in.poster_width * UNITS_PER_PIXEL
          xs == text_out.xs
      IN  /\ 2 * xs[1] = canvas - text_out.total_width
          /\ \A i \in 1..n :
               xs[i] = xs[1] + SumSeq(SubSeq(w, 1, i - 1)) + (i - 1) * tp
          /\ xs[n] + w[n] = xs[1] + text_out.total_width
          /\ xs[1] = canvas - (xs[n] + w[n])

C9_TightenedLine ==
    /\ text_pc = "drawn"
    /\ Len(text_in.text) = 3
    /\ text_in.tracking = TRACKING_MIN
    /\ text_out.xs[1] > 0
    /\ text_out.xs[2] < text_out.xs[1] + text_out.char_widths[1]

\* C10: every channel apply_blend_darken produces is
\* base * (1 - fill/100) + min(base, overlay) * fill/100 truncated to an
\* integer, lies between min(base, overlay) and base, and equals the base
\* wherever the overlay is not darker.
C10_DarkenBetweenMinAndBase ==
    blend_pc = "done" =>
      LET b == blend_in.base
          o == blend_in.overlay
          f == blend_in.fill
      IN  /\ blend_out.channel = (b * (100 - f) + Min2(b, o) * f) \div 100
          /\ Min2(b, o) <= blend_out.channel
          /\ blend_out.channel <= b
          /\ o >= b => blend_out.channel = b

\* The channel the code gives for base 3 under an overlay of 3 at fill 1.
C10_ChannelBelowBoth ==
    /\ blend_pc = "done"
    /\ blend_in.base = 3 /\ blend_in.overlay = 3 /\ blend_in.fill = 1
    /\ blend_out.channel = 2

\* With the fill create_poster passes (95), the darken bounds hold.
C10_DarkenBoundsAtTextureFill ==
    (blend_pc = "done" /\ blend_in.fill = TEXTURE_FILL) =>
      /\ Min2(blend_in.base, blend_in.overlay) <= blend_out.channel
      /\ blend_out.channel <= blend_in.base
      /\ blend_in.overlay >= blend_in.base => blend_out.channel = blend_in.base
====
